---------------------------- MODULE Spec2Model ----------------------------
(***************************************************************************)
(* Model of event_parser.py: the Sysmon XML pipeline                       *)
(*   load_sysmon_events -> parse_event -> DataFrame -> groupby/count/sort  *)
(*   -> suspicious filter -> console output -> output/sysmon_report.txt.   *)
(*                                                                         *)
(* Python values.  A str is the record [str |-> "..."], None is            *)
(* [none |-> TRUE] and the float nan is [nan |-> TRUE]; the three never    *)
(* compare equal, so the text "None" and the value None stay distinct      *)
(* until something formats them.                                           *)
(*                                                                         *)
(* Characters.  Texts are over ASCII (the grave accent aside) and the      *)
(* Latin-1 supplement, the characters this notation can write.             *)
(*                                                                         *)
(* XML.  An Element is the record [tag, Name, text, children]: tag in      *)
(* Clark notation ("{namespace}local"), Name the value of its Name         *)
(* attribute (None when it has none), text its text (None when empty, as   *)
(* ElementTree gives it) and children the sequence of its child Elements.  *)
(***************************************************************************)
EXTENDS Naturals, Integers, Sequences, FiniteSets, TLC

VARIABLES
    pc,             \* position of the script (__main__)
    input,          \* the file at xml_path: "missing", "malformed" or "xml"
    doc,            \* the root Element of the document at xml_path
    out_dir,        \* the path "output": "absent", "dir" or "file"
    report_file,    \* output/sysmon_report.txt: [exists, writable, content]
    events,         \* list returned by load_sysmon_events
    parsed,         \* list of dicts built from the events
    df,             \* DataFrame: [columns, rows]
    counts,         \* aggregated count table (sequence of rows)
    interesting,    \* suspicious subset of df (sequence of rows)
    all_sentences,  \* sentences of every row of df
    console,        \* what has been printed, one entry per print
    error,          \* name of the uncaught exception, "" when none
    infer_string,   \* the pandas installed infers the str dtype (3.0 and later)
    stdout_encoding \* sys.stdout.encoding, as the environment sets it

vars == <<pc, input, doc, out_dir, report_file, events, parsed, df, counts,
          interesting, all_sentences, console, error, infer_string,
          stdout_encoding>>

---------------------------------------------------------------------------
(* Python values *)

None == [none |-> TRUE]

NaN == [nan |-> TRUE]

Str(s) == [str |-> s]

\* pd.isna(v)
isna(v) == v = None \/ v = NaN

\* str(v) as an f-string formats it
Format(v) == IF v = None THEN "None" ELSE IF v = NaN THEN "nan" ELSE v.str

---------------------------------------------------------------------------
(* Characters and strings *)

\* the cased letters of ASCII and Latin-1 that str.lower changes, and what
\* it changes them to
UPPER == "ABCDEFGHIJKLMNOPQRSTUVWXYZÀÁÂÃÄÅÆÇÈÉÊËÌÍÎÏÐÑÒÓÔÕÖØÙÚÛÜÝÞ"

LOWER == "abcdefghijklmnopqrstuvwxyzàáâãäåæçèéêëìíîïðñòóôõöøùúûüýþ"

\* printable ASCII in code point order: codes 32..95 and 97..126 (code 96,
\* the grave accent, cannot be written in a string of this notation)
ASCII_LO == " !\"#$%&'()*+,-./0123456789:;<=>?@ABCDEFGHIJKLMNOPQRSTUVWXYZ[\\]^_"

ASCII_HI == "abcdefghijklmnopqrstuvwxyz{|}~"

\* the Latin-1 supplement in code point order: codes 161..255
LATIN1 == "¡¢£¤¥¦§¨©ª«¬­®¯°±²³´µ¶·¸¹º»¼½¾¿ÀÁÂÃÄÅÆÇÈÉÊËÌÍÎÏÐÑÒÓÔÕÖ×ØÙÚÛÜÝÞßàáâãäåæçèéêëìíîïðñòóôõö÷øùúûüýþÿ"

CharAt(s, i) == SubSeq(s, i, i)

\* the code point of every character of the alphabet (line feed is 10)
CODE_POINTS ==
    [c \in {"\n"} \cup {CharAt(ASCII_LO, i) : i \in 1..Len(ASCII_LO)}
              \cup {CharAt(ASCII_HI, i) : i \in 1..Len(ASCII_HI)}
              \cup {CharAt(LATIN1, i) : i \in 1..Len(LATIN1)} |->
        IF c = "\n" THEN 10
        ELSE IF \E i \in 1..Len(ASCII_LO) : CharAt(ASCII_LO, i) = c
        THEN 31 + (CHOOSE i \in 1..Len(ASCII_LO) : CharAt(ASCII_LO, i) = c)
        ELSE IF \E i \in 1..Len(ASCII_HI) : CharAt(ASCII_HI, i) = c
        THEN 96 + (CHOOSE i \in 1..Len(ASCII_HI) : CharAt(ASCII_HI, i) = c)
        ELSE 160 + (CHOOSE i \in 1..Len(LATIN1) : CharAt(LATIN1, i) = c)]

\* code point of a one-character string
Ord(c) == CODE_POINTS[c]

\* what str.lower makes of every character it changes
LOWERED ==
    [c \in {CharAt(UPPER, i) : i \in 1..Len(UPPER)} |->
        CharAt(LOWER, CHOOSE i \in 1..Len(UPPER) : CharAt(UPPER, i) = c)]

\* str.lower on one character
LowerChar(c) == IF c \in DOMAIN LOWERED THEN LOWERED[c] ELSE c

RECURSIVE lower(_)
\* str.lower
lower(s) == IF Len(s) = 0 THEN "" ELSE LowerChar(Head(s)) \o lower(Tail(s))

RECURSIVE StrLess(_, _)
\* Python's a < b on str: lexicographic by code point
StrLess(a, b) ==
    IF Len(b) = 0 THEN FALSE
    ELSE IF Len(a) = 0 THEN TRUE
    ELSE IF Head(a) = Head(b) THEN StrLess(Tail(a), Tail(b))
    ELSE Ord(Head(a)) < Ord(Head(b))

---------------------------------------------------------------------------
(* Constants of the script *)

NS == "http://schemas.microsoft.com/win/2004/08/events/event"

\* the tag ElementPath looks for when given "ev:<local>" with the NS mapping
Q(local) == "{" \o NS \o "}" \o local

EVENT_DESCRIPTIONS ==
    ("1" :> "Process created (a program started)") @@
    ("2" :> "A process changed a file creation time") @@
    ("3" :> "Network connection created") @@
    ("4" :> "Sysmon service state changed") @@
    ("5" :> "Process terminated (a program ended)") @@
    ("6" :> "Driver loaded") @@
    ("7" :> "Image (EXE/DLL) loaded") @@
    ("8" :> "Remote thread created in another process") @@
    ("9" :> "Raw disk access") @@
    ("10" :> "Process accessed another process") @@
    ("11" :> "File created on disk") @@
    ("12" :> "Registry object created or deleted") @@
    ("13" :> "Registry value set") @@
    ("14" :> "Registry key/values renamed") @@
    ("15" :> "File stream created") @@
    ("22" :> "DNS query performed") @@
    ("255" :> "Sysmon configuration change")

suspicious_images ==
    <<"cmd.exe", "powershell.exe", "pwsh.exe", "wmic.exe", "rundll32.exe",
      "regsvr32.exe">>

xml_path == "data/sysmon_events.xml"

output_path == "output/sysmon_report.txt"

---------------------------------------------------------------------------
(* xml.etree.ElementTree *)

Element(tag, name, text, children) ==
    [tag |-> tag, Name |-> name, text |-> text, children |-> children]

RECURSIVE Flatten(_)
\* concatenation of a sequence of sequences
Flatten(ss) == IF ss = <<>> THEN <<>> ELSE Head(ss) \o Flatten(Tail(ss))

RECURSIVE iter(_)
\* Element.iter(): the element, then its descendants, in document order
iter(elem) ==
    <<elem>> \o Flatten([i \in 1..Len(elem.children) |-> iter(elem.children[i])])

\* elem.findall(".//ev:<local>", NS): ElementPath's descendant step yields
\* every e of elem.iter(tag) that is not elem itself
findall_descendants(elem, tag) ==
    LET IsTag(e) == e.tag = tag
    IN  SelectSeq(Tail(iter(elem)), IsTag)

\* elem.findall("ev:<local>", NS): the children of elem with that tag
findall(elem, tag) ==
    LET IsTag(e) == e.tag = tag
    IN  SelectSeq(elem.children, IsTag)

\* elem.find("ev:<local>", NS): the first such child, or None
find(elem, tag) ==
    IF findall(elem, tag) = <<>> THEN None ELSE Head(findall(elem, tag))

---------------------------------------------------------------------------
(* Functions of the script *)

\* outcome of a call: the value returned, or the exception raised
Return(v) == [returned |-> v]

Raise(exc) == [raised |-> exc]

\* load_sysmon_events once ET.parse has built the tree
load_sysmon_events(root) == findall_descendants(root, Q("Event"))

\* a lookup with no default: dict.get(key)
DescriptionOf_NoDefault(event_id) ==
    IF event_id # None /\ event_id.str \in DOMAIN EVENT_DESCRIPTIONS
    THEN Str(EVENT_DESCRIPTIONS[event_id.str])
    ELSE None

\* dict.get(key, default) on EVENT_DESCRIPTIONS
DescriptionOf(event_id) ==
    IF event_id # None /\ event_id.str \in DOMAIN EVENT_DESCRIPTIONS
    THEN Str(EVENT_DESCRIPTIONS[event_id.str])
    ELSE Str("Other Sysmon event")

RECURSIVE DataLoop(_, _)
\* the loop over data.findall("ev:Data", NS): acc holds utc_time, image and
\* proc_id; a later Data of the same Name overwrites an earlier one
DataLoop(ds, acc) ==
    IF ds = <<>> THEN acc
    ELSE LET d == Head(ds)
             name == d.Name
             next == IF name = Str("UtcTime")
                         THEN [acc EXCEPT !.utc_time = d.text]
                     ELSE IF name = Str("Image")
                         THEN [acc EXCEPT !.image = d.text]
                     ELSE IF name = Str("ProcessId")
                         THEN [acc EXCEPT !.proc_id = d.text]
                     ELSE acc
         IN  DataLoop(Tail(ds), next)

parse_event(ev) ==
    LET system == find(ev, Q("System"))
        data == find(ev, Q("EventData"))
        id_el == IF system # None THEN find(system, Q("EventID")) ELSE None
        computer_el ==
            IF system # None THEN find(system, Q("Computer")) ELSE None
        init == [utc_time |-> None, image |-> None, proc_id |-> None]
        fields ==
            IF data # None THEN DataLoop(findall(data, Q("Data")), init)
            ELSE init
        event_id == IF system # None THEN id_el.text ELSE None
        computer == IF system # None THEN computer_el.text ELSE None
    IN  \* None.text: 'NoneType' object has no attribute 'text'
        IF system # None /\ (id_el = None \/ computer_el = None)
        THEN Raise("AttributeError")
        ELSE Return([event_id |-> event_id,
                     description |-> DescriptionOf(event_id),
                     utc_time |-> fields.utc_time,
                     image |-> fields.image,
                     process_id |-> fields.proc_id,
                     computer |-> computer])

to_sentence(row) ==
    "At " \o Format(row.utc_time) \o ", on computer " \o Format(row.computer)
    \o ", " \o Format(row.description) \o ": " \o Format(row.image)
    \o " (process ID " \o Format(row.process_id) \o ")."

---------------------------------------------------------------------------
(* pandas *)

COLUMNS ==
    <<"event_id", "description", "utc_time", "image", "process_id",
      "computer">>

\* pd.DataFrame(list of dicts): the columns are the dicts' keys, and a list
\* with no dict gives a frame with no column.  Before pandas 3.0 every
\* column is an object column and the values stay as they are.  From 3.0 on
\* (infer) a column holding at least one str has the str dtype, whose
\* missing value is nan; a column of None alone stays an object column.
DataFrame(dicts, infer) ==
    [columns |-> IF dicts = <<>> THEN <<>> ELSE COLUMNS,
     rows |-> [i \in 1..Len(dicts) |->
                 [c \in DOMAIN dicts[i] |->
                     IF /\ infer
                        /\ dicts[i][c] = None
                        /\ \E j \in 1..Len(dicts) : dicts[j][c] # None
                     THEN NaN
                     ELSE dicts[i][c]]]]

\* the Series frame.iterrows() gives for one row: it is built from the
\* row's values with the dtype inferred anew, so from pandas 3.0 on a row
\* holding a str is a str Series and every missing value in it is nan
IterRow(row, infer) ==
    [c \in DOMAIN row |->
        IF infer /\ isna(row[c]) /\ \E d \in DOMAIN row : ~isna(row[d])
        THEN NaN
        ELSE row[c]]

\* [r for _, r in frame.iterrows()]
iterrows(rows, infer) == [i \in 1..Len(rows) |-> IterRow(rows[i], infer)]

HasColumn(frame, c) == \E i \in 1..Len(frame.columns) : frame.columns[i] = c

\* df.head(n)
head(rows, n) == SubSeq(rows, 1, IF Len(rows) < n THEN Len(rows) ELSE n)

GroupKey(row) == <<row.event_id.str, row.description.str>>

\* tuples of str compared as Python compares them
KeyLess(a, b) == StrLess(a[1], b[1]) \/ (a[1] = b[1] /\ StrLess(a[2], b[2]))

RECURSIVE SortKeys(_)
\* the group keys in ascending order (groupby's sort=True)
SortKeys(S) ==
    IF S = {} THEN <<>>
    ELSE LET m == CHOOSE k \in S : \A o \in S \ {k} : KeyLess(k, o)
         IN  <<m>> \o SortKeys(S \ {m})

\* df.groupby(["event_id", "description"]).size().reset_index(name="count"):
\* one row per key, keys ascending; dropna=True leaves out every row whose
\* key holds a missing value
GroupBySize(rows) ==
    LET kept == {i \in 1..Len(rows) :
                    ~isna(rows[i].event_id) /\ ~isna(rows[i].description)}
        keys == SortKeys({GroupKey(rows[i]) : i \in kept})
    IN  [j \in 1..Len(keys) |->
            [event_id |-> Str(keys[j][1]),
             description |-> Str(keys[j][2]),
             count |-> Cardinality({i \in kept : GroupKey(rows[i]) = keys[j]})]]

\* frame["count"]
Counts(rows) == [k \in 1..Len(rows) |-> rows[k].count]

\* a[i] and a[j] exchanged
Swap(a, i, j) == [a EXCEPT ![i] = a[j], ![j] = a[i]]

RECURSIVE ScanUp(_, _, _, _)
\* do ++pi while v[*pi] < vp
ScanUp(v, a, pi, vp) == IF v[a[pi]] < vp THEN ScanUp(v, a, pi + 1, vp) ELSE pi

RECURSIVE ScanDown(_, _, _, _)
\* do --pj while vp < v[*pj]
ScanDown(v, a, pj, vp) == IF vp < v[a[pj]] THEN ScanDown(v, a, pj - 1, vp) ELSE pj

RECURSIVE PartitionLoop(_, _, _, _, _)
\* the loop that moves pi up and pj down and exchanges what they stop at
PartitionLoop(v, a, pi, pj, vp) ==
    LET i == ScanUp(v, a, pi + 1, vp)
        j == ScanDown(v, a, pj - 1, vp)
    IN  IF i >= j THEN [a |-> a, pi |-> i]
        ELSE PartitionLoop(v, Swap(a, i, j), i, j, vp)

\* one partition of a[pl..pr]: the median of three as pivot, put at pr - 1
Partition(v, a, pl, pr) ==
    LET pm == pl + ((pr - pl) \div 2)
        a1 == IF v[a[pm]] < v[a[pl]] THEN Swap(a, pm, pl) ELSE a
        a2 == IF v[a1[pr]] < v[a1[pm]] THEN Swap(a1, pr, pm) ELSE a1
        a3 == IF v[a2[pm]] < v[a2[pl]] THEN Swap(a2, pm, pl) ELSE a2
        vp == v[a3[pm]]
        a4 == Swap(a3, pm, pr - 1)
        r  == PartitionLoop(v, a4, pl, pr - 1, vp)
    IN  [a |-> Swap(r.a, r.pi, pr - 1), pi |-> r.pi]

RECURSIVE InsertDown(_, _, _, _, _)
\* the inner loop of the insertion sort: a[pj - 1] moves up while vi < it
InsertDown(v, a, pl, pj, vi) ==
    IF pj > pl /\ v[vi] < v[a[pj - 1]]
    THEN InsertDown(v, [a EXCEPT ![pj] = a[pj - 1]], pl, pj - 1, vi)
    ELSE [a EXCEPT ![pj] = vi]

RECURSIVE InsertionSort(_, _, _, _, _)
\* the insertion sort of a[pl..pr], pi the next element to place
InsertionSort(v, a, pl, pr, pi) ==
    IF pi > pr THEN a
    ELSE InsertionSort(v, InsertDown(v, a, pl, pi, a[pi]), pl, pr, pi + 1)

RECURSIVE aquicksort(_, _, _, _)
\* numpy's argsort of kind "quicksort" as built without a vector sort: a
\* range of more than 17 elements is partitioned, a shorter one is sorted
\* by insertion.  (The depth limit that turns to heapsort is not reached by
\* a table of this size.)  The two parts of a partition do not overlap, so
\* the order they are sorted in does not show.
aquicksort(v, a, pl, pr) ==
    IF pr - pl > 16
    THEN LET p == Partition(v, a, pl, pr)
         IN  aquicksort(v, aquicksort(v, p.a, pl, p.pi - 1), p.pi + 1, pr)
    ELSE InsertionSort(v, a, pl, pr, pl + 1)

\* the items back to front
Reversed(items) == [i \in 1..Len(items) |-> items[Len(items) + 1 - i]]

\* pandas' nargsort(items, kind="quicksort", ascending=False): the items and
\* their positions are reversed, sorted ascending, and the result reversed
nargsort(items) ==
    LET n   == Len(items)
        rv  == Reversed(items)
        srt == aquicksort(rv, [i \in 1..n |-> i], 1, n)
    IN  Reversed([k \in 1..n |-> n + 1 - srt[k]])

\* the place of item i in the descending order that keeps equal items in
\* the order they came in
Rank(items, i) ==
    1 + Cardinality({j \in 1..Len(items) :
                        items[j] > items[i] \/ (items[j] = items[i] /\ j < i)})

StableDescending(items) ==
    [k \in 1..Len(items) |-> CHOOSE i \in 1..Len(items) : Rank(items, i) = k]

\* the descending order with every run of equal items turned round
\* (reversed) and rotated by shift: place k takes the item that is number
\* t, counted from 0 in the order the items came in, of the run k is in
TiesMoved(items, reversed, shift) ==
    [k \in 1..Len(items) |->
        CHOOSE i \in 1..Len(items) :
            LET lo == 1 + Cardinality({j \in 1..Len(items) : items[j] > items[i]})
                m  == Cardinality({j \in 1..Len(items) : items[j] = items[i]})
                t  == Cardinality({j \in 1..(i - 1) : items[j] = items[i]})
                o  == IF reversed THEN m - 1 - (k - lo) ELSE k - lo
            IN  lo <= k /\ k < lo + m /\ t = (o + shift) % m]

\* every order of the positions in which the items do not increase
AllDescending(items) ==
    {p \in [1..Len(items) -> 1..Len(items)] :
        /\ \A i, j \in 1..Len(items) : i # j => p[i] # p[j]
        /\ \A k \in 1..(Len(items) - 1) : items[p[k]] >= items[p[k + 1]]}

\* the longest table for which every order of the tied rows is tried
MaxFreeRows == 4

\* the furthest a run of tied rows is rotated in a longer table
MaxTieShift == 1

\* an order that sorts ascending
Indexers_Ascending(items) == {Reversed(StableDescending(items))}

\* the indexers sort_values("count", ascending=False) may take the rows by.
\* kind is "quicksort", which is not stable, and what numpy runs for it
\* depends on the build: the scalar introsort gives nargsort(items); a
\* build with a vector sort (AVX2, AVX-512) leaves tied rows in an order of
\* its own, here every order for a table of up to MaxFreeRows rows and the
\* runs of ties turned round and rotated for a longer one.
Indexers(items) ==
    {nargsort(items)}
    \cup (IF Len(items) <= MaxFreeRows
          THEN AllDescending(items)
          ELSE {TiesMoved(items, r, s) : r \in BOOLEAN, s \in 0..MaxTieShift})

\* frame.take(indexer)
take(rows, indexer) == [k \in 1..Len(indexer) |-> rows[indexer[k]]]

RECURSIVE Join(_, _)
\* sep.join(parts)
Join(sep, parts) ==
    IF parts = <<>> THEN ""
    ELSE IF Len(parts) = 1 THEN parts[1]
    ELSE parts[1] \o sep \o Join(sep, Tail(parts))

RECURSIVE Alternatives(_, _)
\* the branches of a regular expression a|b|c (cur: the branch being read)
Alternatives(pattern, cur) ==
    IF Len(pattern) = 0 THEN <<cur>>
    ELSE IF Head(pattern) = "|"
         THEN <<cur>> \o Alternatives(Tail(pattern), "")
         ELSE Alternatives(Tail(pattern), cur \o Head(pattern))

\* one pattern character against one character: "." is any character but
\* the line feed, every other character of these patterns is itself
MatchChar(p, c) == IF p = "." THEN c # "\n" ELSE p = c

MatchAt(branch, s, start) ==
    \A j \in 1..Len(branch) : MatchChar(CharAt(branch, j), CharAt(s, start + j - 1))

\* re.search(pattern, s) is not None
RegexSearch(pattern, s) ==
    LET branches == Alternatives(pattern, "")
    IN  \E b \in 1..Len(branches) :
            \E start \in 1..(Len(s) - Len(branches[b]) + 1) :
                MatchAt(branches[b], s, start)

\* "|".join(x.lower() for x in suspicious_images)
SuspiciousPattern ==
    Join("|", [i \in 1..Len(suspicious_images) |-> lower(suspicious_images[i])])

\* df["image"].notna() & df["image"].str.lower().str.contains(pattern,
\* na=False): str.contains takes the pattern as a regular expression
InterestingMask(row) ==
    /\ ~isna(row.image)
    /\ RegexSearch(SuspiciousPattern, lower(row.image.str))

---------------------------------------------------------------------------
(* Input documents *)

\* the longest run of elements under the root of a document
MaxEvents == 24

\* the last position of a corpus a run of elements starts after
MaxStart == 1

Leaf(local, text) == Element(Q(local), None, text, <<>>)

Data(name, text) == Element(Q("Data"), name, text, <<>>)

System(children) == Element(Q("System"), None, None, children)

EventData(children) == Element(Q("EventData"), None, None, children)

Event(children) == Element(Q("Event"), None, None, children)

\* an Event with every part the script reads
FullEvent(id, computer, time, image, pid) ==
    Event(<<System(<<Leaf("EventID", Str(id)), Leaf("Computer", Str(computer))>>),
            EventData(<<Data(Str("UtcTime"), Str(time)),
                        Data(Str("Image"), Str(image)),
                        Data(Str("ProcessId"), Str(pid))>>)>>)

IdsA ==
    <<"1", "1", "3", "5", "7", "10", "11", "12", "13", "22",
      "255", "2", "4", "6", "8", "9", "14", "15", "999", "1">>

ImagesA ==
    <<"C:\\Windows\\System32\\cmd.exe",
      "C:\\Windows\\System32\\WindowsPowerShell\\v1.0\\PowerShell.EXE",
      "C:\\Program Files\\PowerShell\\7\\pwsh.exe",
      "C:\\Windows\\System32\\CMD.EXE",
      "C:\\Windows\\System32\\rundll32.exe",
      "C:\\Windows\\System32\\wbem\\WMIC.exe",
      "C:\\Windows\\SysWOW64\\regsvr32.exe",
      "C:\\evil\\not_cmd.exe_backup",
      "cmd.exe",
      "C:\\Windows\\System32\\WindowsPowerShell\\v1.0\\powershell.exe",
      "C:\\Program Files\\PowerShell\\7\\pwsh.exe",
      "C:\\Windows\\System32\\cmd.exe",
      "C:\\Windows\\System32\\Rundll32.exe",
      "C:\\Windows\\System32\\wbem\\wmic.exe",
      "C:\\Windows\\System32\\regsvr32.exe",
      "C:\\Users\\JOSÉ\\CMD.EXE",
      "C:\\Windows\\System32\\cmd.exe",
      "C:\\Users\\a\\pwsh.exe",
      "C:\\Windows\\System32\\wmic.exe",
      "C:\\Windows\\System32\\notepad.exe">>

\* a log of shell activity: every code of the table, one unlisted code,
\* every part present
CorpusA ==
    [i \in 1..Len(IdsA) |->
        FullEvent(IdsA[i], IF i % 2 = 1 THEN "HOST1" ELSE "WS-02",
                  "2024-01-01T00:00:00Z", ImagesA[i],
                  IF i % 3 = 0 THEN "4" ELSE "1234")]

FullSystem(id) == System(<<Leaf("EventID", Str(id)), Leaf("Computer", Str("HOST1"))>>)

FullData(image) ==
    EventData(<<Data(Str("UtcTime"), Str("2024-01-01T00:00:00Z")),
                Data(Str("Image"), Str(image)),
                Data(Str("ProcessId"), Str("1234"))>>)

\* events with parts missing, repeated or unexpected
CorpusB ==
    << \* 1: no System child
       Event(<<FullData("C:\\Windows\\System32\\cmd.exe")>>),
       \* 2: no EventData child
       Event(<<FullSystem("3")>>),
       \* 3: no child at all
       Event(<<>>),
       \* 4: <EventID/> and <Computer/> without text, no Image entry
       Event(<<System(<<Leaf("EventID", None), Leaf("Computer", None)>>),
               EventData(<<Data(Str("UtcTime"), Str("2024-01-01T00:00:00Z")),
                           Data(Str("ProcessId"), Str("77"))>>)>>),
       \* 5: only an Image entry, whose path has no suspicious name in it
       Event(<<FullSystem("1"),
               EventData(<<Data(Str("Image"), Str("C:\\Tools\\cmdXexe"))>>)>>),
       \* 6: an unlisted code, EventData before System
       Event(<<FullData("C:\\Users\\a\\pwsh-exe.txt"), FullSystem("999")>>),
       \* 7: Image given twice, entries the script does not read, a Data
       \*    with no Name attribute
       Event(<<FullSystem("22"),
               EventData(<<Data(Str("Image"), Str("C:\\Windows\\explorer.exe")),
                           Data(Str("CommandLine"), Str("cmd.exe /c dir")),
                           Data(None, Str("C:\\Windows\\System32\\cmd.exe")),
                           Data(Str("Image"), Str("C:\\Windows\\System32\\svchost.exe")),
                           Data(Str("ProcessId"), None)>>)>>),
       \* 8: System and EventData of no namespace
       Event(<<Element("System", None, None,
                       <<Leaf("EventID", Str("1")), Leaf("Computer", Str("HOST1"))>>),
               Element("EventData", None, None,
                       <<Data(Str("Image"), Str("C:\\Windows\\System32\\cmd.exe"))>>)>>),
       \* 9: a code that is no key of the table as written, the text "None"
       Event(<<FullSystem("01"), FullData("None")>>),
       \* 10: an Event inside a container, with an Event of its own inside
       Element(Q("Batch"), None, None,
               <<Event(<<FullSystem("5"), FullData("C:\\Windows\\System32\\cmd.exe"),
                         Event(<<FullSystem("5")>>)>>)>>),
       \* 11: an Event of no namespace holding one of another namespace
       Element("Event", None, None,
               <<FullSystem("1"), Element("{urn:other}Event", None, None, <<>>)>>),
       \* 12: System without EventID
       Event(<<System(<<Leaf("Computer", Str("HOST1"))>>),
               FullData("C:\\Windows\\System32\\cmd.exe")>>),
       \* 13: System without Computer
       Event(<<System(<<Leaf("EventID", Str("1"))>>)>>) >>

Corpora == <<CorpusA, CorpusB>>

\* n elements of a corpus from position start + 1 on, going round
Window(corpus, start, n) ==
    [i \in 1..n |-> corpus[((start + i - 1) % Len(corpus)) + 1]]

\* <Events xmlns=NS> around a window of a corpus, or one Event of a corpus
\* as the root of the document
Documents ==
    {Element(Q("Events"), None, None, Window(Corpora[c], start, n)) :
        c \in 1..Len(Corpora), start \in 0..MaxStart, n \in 0..MaxEvents}
    \cup {CorpusA[i] : i \in 1..Len(CorpusA)}
    \cup {CorpusB[i] : i \in 1..Len(CorpusB)}

---------------------------------------------------------------------------
(* Output *)

\* a str printed or written
Text(s) == [text |-> s]

\* a str with one character from outside the alphabet of the texts, given
\* by its code point, between two texts
TextWith(before, codepoint, after) ==
    [text |-> before, codepoint |-> codepoint, after |-> after]

\* a frame printed or written by pandas: its columns, its rows, and whether
\* the index column is shown
Table(columns, rows, index) == [columns |-> columns, rows |-> rows, index |-> index]

DIGITS == "0123456789"

RECURSIVE IntStr(_)
\* str(n) for n >= 0
IntStr(n) ==
    IF n < 10 THEN CharAt(DIGITS, n + 1)
    ELSE IntStr(n \div 10) \o CharAt(DIGITS, (n % 10) + 1)

RECURSIVE Repeat(_, _)
\* s * n
Repeat(s, n) == IF n = 0 THEN "" ELSE s \o Repeat(s, n - 1)

COUNT_COLUMNS == <<"event_id", "description", "count">>

LISTING_COLUMNS == <<"utc_time", "description", "image", "process_id">>

\* frame[["utc_time", "description", "image", "process_id"]]
Listing(rows) ==
    [i \in 1..Len(rows) |->
        [utc_time |-> rows[i].utc_time, description |-> rows[i].description,
         image |-> rows[i].image, process_id |-> rows[i].process_id]]

\* print("- " + to_sentence(r)) for each row
PrintSentences(rows) == [i \in 1..Len(rows) |-> Text("- " \o to_sentence(rows[i]))]

\* the encodings of the standard output: UTF-8, and three that cannot
\* encode every character (cp1252 is what Python takes on Windows when the
\* output is redirected)
ENCODINGS == {"utf-8", "ascii", "latin-1", "cp1252"}

\* the encoding can encode the character of that code point; of the code
\* points of the texts' alphabet, latin-1 and cp1252 encode all up to 255
CanEncode(encoding, code) ==
    \/ encoding = "utf-8"
    \/ encoding = "ascii" /\ code <= 127
    \/ encoding \in {"latin-1", "cp1252"} /\ code <= 255

\* s.encode(encoding) raises no UnicodeEncodeError
CanEncodeStr(encoding, s) ==
    \/ encoding = "utf-8"
    \/ \A i \in 1..Len(s) : CanEncode(encoding, Ord(CharAt(s, i)))

\* print(item) can write the item to a standard output of that encoding
CanPrint(encoding, item) ==
    IF "codepoint" \in DOMAIN item
    THEN /\ CanEncodeStr(encoding, item.text)
         /\ CanEncode(encoding, item.codepoint)
         /\ CanEncodeStr(encoding, item.after)
    ELSE IF "text" \in DOMAIN item
    THEN CanEncodeStr(encoding, item.text)
    ELSE \A k \in 1..Len(item.rows), c \in 1..Len(item.columns) :
            \/ item.columns[c] = "count"
            \/ isna(item.rows[k][item.columns[c]])
            \/ CanEncodeStr(encoding, item.rows[k][item.columns[c]].str)

\* what a run of print calls leaves on the console: the items up to the
\* first one the standard output cannot encode
Printed(encoding, items) ==
    LET bad == {i \in 1..Len(items) : ~CanPrint(encoding, items[i])}
    IN  IF bad = {} THEN items
        ELSE SubSeq(items, 1, (CHOOSE i \in bad : \A j \in bad : i <= j) - 1)

NoFile == [exists |-> FALSE, writable |-> TRUE, content |-> <<>>]

\* a report left by an earlier run
OldReport(writable) ==
    [exists |-> TRUE, writable |-> writable,
     content |-> <<Text("Sysmon Human-Readable Report\n"), Text("(earlier run)\n")>>]

\* a report cut the way the console output is cut
ReportContent_Truncated(count_rows, interesting_rows, sentences) ==
    <<Text("Sysmon Human-Readable Report\n"),
      Text(Repeat("=", 40) \o "\n\n"),
      Text("Top event types:\n"),
      Table(COUNT_COLUMNS, head(count_rows, 10), FALSE),
      Text("\n\nInteresting / potentially suspicious events:\n")>>
    \o [i \in 1..Len(head(interesting_rows, 20)) |->
            Text("- " \o to_sentence(interesting_rows[i]) \o "\n")]
    \o <<Text("\nAll events (full log in sentences):\n")>>
    \o [i \in 1..Len(sentences) |-> Text("- " \o sentences[i] \o "\n")]

\* what the with block writes, one entry per f.write; interesting_rows are
\* the rows as interesting.iterrows() gives them
ReportContent(count_rows, interesting_rows, sentences) ==
    <<Text("Sysmon Human-Readable Report\n"),
      Text(Repeat("=", 40) \o "\n\n"),
      Text("Top event types:\n"),
      Table(COUNT_COLUMNS, count_rows, FALSE),
      Text("\n\nInteresting / potentially suspicious events:\n")>>
    \o [i \in 1..Len(interesting_rows) |->
            Text("- " \o to_sentence(interesting_rows[i]) \o "\n")]
    \o <<Text("\nAll events (full log in sentences):\n")>>
    \o [i \in 1..Len(sentences) |-> Text("- " \o sentences[i] \o "\n")]

---------------------------------------------------------------------------
(* The script *)

EmptyFrame == [columns |-> <<>>, rows |-> <<>>]

Init ==
    /\ pc = "start"
    /\ \/ input \in {"missing", "malformed"} /\ doc = Element(Q("Events"), None, None, <<>>)
       \/ input = "xml" /\ doc \in Documents
    /\ \/ out_dir = "absent" /\ report_file = NoFile
       \/ out_dir = "dir" /\ report_file \in {OldReport(TRUE), OldReport(FALSE)}
       \/ out_dir = "file" /\ report_file = NoFile
    /\ events = <<>>
    /\ parsed = <<>>
    /\ df = EmptyFrame
    /\ counts = <<>>
    /\ interesting = <<>>
    /\ all_sentences = <<>>
    /\ console = <<>>
    /\ error = ""
    /\ infer_string \in BOOLEAN
    /\ stdout_encoding \in ENCODINGS

\* an exception nothing catches: the script ends there
Fail(exc) == pc' = "failed" /\ error' = exc

\* print(item) for each of the items, then on to the position next; print
\* raises UnicodeEncodeError at the first item the standard output cannot
\* encode, and writes nothing of it
PrintEach(items, next) ==
    /\ console' = console \o Printed(stdout_encoding, items)
    /\ IF Len(Printed(stdout_encoding, items)) = Len(items)
       THEN pc' = next /\ UNCHANGED error
       ELSE Fail("UnicodeEncodeError")

\* events = load_sysmon_events(xml_path)
Load ==
    /\ pc = "start"
    /\ IF input = "missing"
       THEN Fail("FileNotFoundError") /\ UNCHANGED <<events, console>>
       ELSE IF input = "malformed"
       THEN Fail("ParseError") /\ UNCHANGED <<events, console>>
       ELSE /\ events' = load_sysmon_events(doc)
            /\ PrintEach(<<Text("Loaded " \o IntStr(Len(load_sysmon_events(doc)))
                            \o " events from " \o xml_path)>>, "loaded")
    /\ UNCHANGED <<input, doc, out_dir, report_file, parsed, df, counts,
                   interesting, all_sentences,
                   infer_string, stdout_encoding>>

\* parsed = [parse_event(e) for e in events]
Parse ==
    /\ pc = "loaded"
    /\ LET results == [i \in 1..Len(events) |-> parse_event(events[i])]
       IN  IF \E i \in 1..Len(events) : "raised" \in DOMAIN results[i]
           THEN /\ Fail(results[CHOOSE i \in 1..Len(events) :
                                   "raised" \in DOMAIN results[i]].raised)
                /\ UNCHANGED parsed
           ELSE /\ parsed' = [i \in 1..Len(events) |-> results[i].returned]
                /\ pc' = "parsed"
                /\ UNCHANGED error
    /\ UNCHANGED <<input, doc, out_dir, report_file, events, df, counts,
                   interesting, all_sentences, console,
                   infer_string, stdout_encoding>>

\* df = pd.DataFrame(parsed)
MakeFrame ==
    /\ pc = "parsed"
    /\ df' = DataFrame(parsed, infer_string)
    /\ pc' = "framed"
    /\ UNCHANGED <<input, doc, out_dir, report_file, events, parsed, counts,
                   interesting, all_sentences, console, error,
                   infer_string, stdout_encoding>>

\* counts = df.groupby([...]).size().reset_index(name="count")
\*            .sort_values("count", ascending=False)
\* groupby raises KeyError for a column the frame does not have
Aggregate ==
    /\ pc = "framed"
    /\ IF HasColumn(df, "event_id") /\ HasColumn(df, "description")
       THEN /\ \E grouped \in {GroupBySize(df.rows)} :
                    \E indexer \in Indexers(Counts(grouped)) :
                        counts' = take(grouped, indexer)
            /\ pc' = "counted"
            /\ UNCHANGED error
       ELSE Fail("KeyError") /\ UNCHANGED counts
    /\ UNCHANGED <<input, doc, out_dir, report_file, events, parsed, df,
                   interesting, all_sentences, console,
                   infer_string, stdout_encoding>>

\* print("\nTop Sysmon event types:"); print(counts.head(10))
PrintTop ==
    /\ pc = "counted"
    /\ PrintEach(<<Text("\nTop Sysmon event types:"),
               Table(COUNT_COLUMNS, head(counts, 10), TRUE)>>, "top_printed")
    /\ UNCHANGED <<input, doc, out_dir, report_file, events, parsed, df,
                   counts, interesting, all_sentences,
                   infer_string, stdout_encoding>>

\* the sentences of df.head(5); the heading has the non-breaking hyphen
\* U+2011 (8209) between "human" and "readable", which only UTF-8 of the
\* encodings encodes
PrintSample ==
    /\ pc = "top_printed"
    /\ PrintEach(<<TextWith("\nSample human", 8209, "readable events:")>>
             \o PrintSentences(iterrows(head(df.rows, 5), infer_string)),
             "sample_printed")
    /\ UNCHANGED <<input, doc, out_dir, report_file, events, parsed, df,
                   counts, interesting, all_sentences,
                   infer_string, stdout_encoding>>

\* interesting = df[df["image"].notna() & df["image"].str.lower()
\*                  .str.contains("|".join(...), na=False)]
Filter ==
    /\ pc = "sample_printed"
    /\ IF HasColumn(df, "image")
       THEN /\ interesting' = SelectSeq(df.rows, InterestingMask)
            /\ pc' = "filtered"
            /\ UNCHANGED error
       ELSE Fail("KeyError") /\ UNCHANGED interesting
    /\ UNCHANGED <<input, doc, out_dir, report_file, events, parsed, df,
                   counts, all_sentences, console,
                   infer_string, stdout_encoding>>

\* the listing and the sentences of interesting.head(20)
PrintInteresting ==
    /\ pc = "filtered"
    /\ PrintEach(<<Text("\nInteresting events (potentially higher priority):"),
               Table(LISTING_COLUMNS, Listing(head(interesting, 20)), FALSE),
               Text("\nInteresting events as sentences:")>>
             \o PrintSentences(iterrows(head(interesting, 20), infer_string)),
             "interesting_printed")
    /\ UNCHANGED <<input, doc, out_dir, report_file, events, parsed, df,
                   counts, interesting, all_sentences,
                   infer_string, stdout_encoding>>

\* a Mkdir that opens the report for writing as soon as the directory is
\* there, before the sentences are rendered
Mkdir_OpensReport ==
    /\ pc = "interesting_printed"
    /\ IF out_dir = "file"
       THEN Fail("FileExistsError") /\ UNCHANGED <<out_dir, report_file>>
       ELSE /\ out_dir' = "dir"
            /\ report_file' = [exists |-> TRUE, writable |-> TRUE, content |-> <<>>]
            /\ pc' = "dir_ready"
            /\ UNCHANGED error
    /\ UNCHANGED <<input, doc, events, parsed, df, counts, interesting,
                   all_sentences, console,
                   infer_string, stdout_encoding>>

\* output_dir.mkdir(parents=True, exist_ok=True)
Mkdir ==
    /\ pc = "interesting_printed"
    /\ IF out_dir = "file"
       THEN Fail("FileExistsError") /\ UNCHANGED out_dir
       ELSE out_dir' = "dir" /\ pc' = "dir_ready" /\ UNCHANGED error
    /\ UNCHANGED <<input, doc, report_file, events, parsed, df, counts,
                   interesting, all_sentences, console,
                   infer_string, stdout_encoding>>

\* all_sentences = [to_sentence(r) for _, r in df.iterrows()]
RenderAll ==
    /\ pc = "dir_ready"
    /\ all_sentences' =
            [i \in 1..Len(df.rows) |->
                to_sentence(IterRow(df.rows[i], infer_string))]
    /\ pc' = "rendered"
    /\ UNCHANGED <<input, doc, out_dir, report_file, events, parsed, df,
                   counts, interesting, console, error,
                   infer_string, stdout_encoding>>

\* with output_path.open("w", encoding="utf-8") as f: ...
\* open("w") truncates the file, or raises when it may not be written
WriteReport ==
    /\ pc = "rendered"
    /\ IF report_file.exists /\ ~report_file.writable
       THEN Fail("PermissionError") /\ UNCHANGED report_file
       ELSE /\ report_file' =
                [exists |-> TRUE, writable |-> TRUE,
                 content |-> ReportContent(counts,
                                iterrows(interesting, infer_string),
                                all_sentences)]
            /\ pc' = "written"
            /\ UNCHANGED error
    /\ UNCHANGED <<input, doc, out_dir, events, parsed, df, counts,
                   interesting, all_sentences, console,
                   infer_string, stdout_encoding>>

\* print(f"\nReport saved to {output_path}")
PrintSaved ==
    /\ pc = "written"
    /\ PrintEach(<<Text("\nReport saved to " \o output_path)>>, "done")
    /\ UNCHANGED <<input, doc, out_dir, report_file, events, parsed, df,
                   counts, interesting, all_sentences,
                   infer_string, stdout_encoding>>

Next ==
    \/ Load
    \/ Parse
    \/ MakeFrame
    \/ Aggregate
    \/ PrintTop
    \/ PrintSample
    \/ Filter
    \/ PrintInteresting
    \/ Mkdir
    \/ RenderAll
    \/ WriteReport
    \/ PrintSaved

Spec == Init /\ [][Next]_vars

---------------------------------------------------------------------------
(* Properties *)

IsEvent(e) == e.tag = Q("Event")

\* the part of ev named local, looked for among the children the way the
\* specification describes the lookup
Part(ev, local) ==
    IF \E i \in 1..Len(ev.children) : ev.children[i].tag = Q(local)
    THEN ev.children[CHOOSE i \in 1..Len(ev.children) :
            /\ ev.children[i].tag = Q(local)
            /\ \A j \in 1..(i - 1) : ev.children[j].tag # Q(local)]
    ELSE None

\* text of the part of el named local, None when el or the part is missing
PartText(el, local) ==
    IF el = None THEN None
    ELSE IF Part(el, local) = None THEN None
    ELSE Part(el, local).text

\* text of the last Data entry of data with that Name, None when missing
EntryText(data, name) ==
    IF data = None THEN None
    ELSE LET hits == {i \in 1..Len(data.children) :
                        /\ data.children[i].tag = Q("Data")
                        /\ data.children[i].Name = Str(name)}
         IN  IF hits = {} THEN None
             ELSE data.children[CHOOSE i \in hits : \A j \in hits : j <= i].text

\* C1: parse_event is total over event elements: for every loaded Event,
\* whichever optional parts are missing, it returns one record and raises
\* nothing; each field whose source is missing is None and every other
\* field carries the source text unchanged.
C1_ParseEventTotal ==
    pc = "loaded" =>
        \A i \in 1..Len(events) :
            LET ev == events[i]
                r == parse_event(ev)
            IN  /\ "returned" \in DOMAIN r
                /\ r.returned.event_id = PartText(Part(ev, "System"), "EventID")
                /\ r.returned.computer = PartText(Part(ev, "System"), "Computer")
                /\ r.returned.utc_time = EntryText(Part(ev, "EventData"), "UtcTime")
                /\ r.returned.image = EntryText(Part(ev, "EventData"), "Image")
                /\ r.returned.process_id = EntryText(Part(ev, "EventData"), "ProcessId")

RECURSIVE SumCounts(_)
SumCounts(rows) ==
    IF rows = <<>> THEN 0 ELSE Head(rows).count + SumCounts(Tail(rows))

\* C2: for every sequence of extracted records (records whose event_id is
\* absent included), the counts of the aggregated table add up to the
\* number of records.
C2_CountSumEqualsRecords ==
    pc = "counted" => SumCounts(counts) = Len(parsed)

\* needle occurs in s, character for character
IsSubstring(needle, s) ==
    \E start \in 1..(Len(s) - Len(needle) + 1) :
        SubSeq(s, start, start + Len(needle) - 1) = needle

HasSuspiciousName(row) ==
    /\ ~isna(row.image)
    /\ \E k \in 1..Len(suspicious_images) :
            IsSubstring(suspicious_images[k], lower(row.image.str))

\* C3: the suspicious subset is exactly the records (the rows of the
\* frame) whose image is present and whose lower-cased image contains one
\* of the six names as a literal substring, in their original order.
C3_SuspiciousIsLiteralSubstring ==
    pc = "filtered" => interesting = SelectSeq(df.rows, HasSuspiciousName)

IO_ERRORS == {"FileExistsError", "PermissionError"}

\* C4: when the input XML holds no Event element, the pipeline runs to
\* completion without error, with an empty record set, an empty count
\* table, an empty suspicious subset and a report of the header and the
\* section labels only (a failure to write the output aside).
C4_EmptyInputCompletes ==
    (input = "xml" /\ pc # "start" /\ events = <<>>) =>
        /\ pc = "failed" => error \in IO_ERRORS
        /\ pc = "done" =>
            /\ parsed = <<>> /\ counts = <<>> /\ interesting = <<>>
            /\ report_file.content = ReportContent(<<>>, <<>>, <<>>)

\* C5: load_sysmon_events returns every Event element of the namespace
\* found anywhere in the document, the root included, each once, in
\* document order.
C5_LoadReturnsEveryEvent ==
    pc = "loaded" => events = SelectSeq(iter(doc), IsEvent)

\* the table of section 6 of the specification
Section6Table ==
    { <<"1", "Process created (a program started)">>,
      <<"2", "A process changed a file creation time">>,
      <<"3", "Network connection created">>,
      <<"4", "Sysmon service state changed">>,
      <<"5", "Process terminated (a program ended)">>,
      <<"6", "Driver loaded">>,
      <<"7", "Image (EXE/DLL) loaded">>,
      <<"8", "Remote thread created in another process">>,
      <<"9", "Raw disk access">>,
      <<"10", "Process accessed another process">>,
      <<"11", "File created on disk">>,
      <<"12", "Registry object created or deleted">>,
      <<"13", "Registry value set">>,
      <<"14", "Registry key/values renamed">>,
      <<"15", "File stream created">>,
      <<"22", "DNS query performed">>,
      <<"255", "Sysmon configuration change">> }

InTable(event_id) == \E row \in Section6Table : event_id = Str(row[1])

\* C6: description resolution is total: whatever the event_id of a record
\* (a code of the table, an unrecognized string, None), its description is
\* not None, and is the phrase of the table for a code of the table and
\* "Other Sysmon event" otherwise.
C6_DescriptionTotal ==
    pc = "parsed" =>
        \A i \in 1..Len(parsed) :
            LET r == parsed[i]
            IN  /\ r.description # None
                /\ \A row \in Section6Table :
                        r.event_id = Str(row[1]) => r.description = Str(row[2])
                /\ ~InTable(r.event_id) => r.description = Str("Other Sysmon event")

C6_Witness ==
    /\ pc = "parsed"
    /\ \E i \in 1..Len(parsed) : parsed[i].event_id = None
    /\ \E i \in 1..Len(parsed) : parsed[i].event_id = Str("999")
    /\ \E i \in 1..Len(parsed) : parsed[i].event_id = Str("22")

\* the sentence the script makes of a row of a frame
Sentence(row) == to_sentence(IterRow(row, infer_string))

Shorter(n, limit) == IF n < limit THEN n ELSE limit

\* C7: the report holds, in this order, the title block, the whole count
\* table, one bullet for every suspicious record in original order, then
\* one bullet for every record in original order; only the console shows
\* the top 10 counts, the first 5 records and the first 20 suspicious ones.
C7_ReportIsComplete ==
    pc = "done" =>
        LET c == report_file.content
            nI == Len(interesting)
            nR == Len(parsed)
            shownI == Shorter(nI, 20)
            shownR == Shorter(nR, 5)
        IN  /\ Len(c) = 6 + nI + nR
            /\ c[1] = Text("Sysmon Human-Readable Report\n")
            /\ c[2] = Text("========================================\n\n")
            /\ c[3] = Text("Top event types:\n")
            /\ c[4].rows = counts
            /\ c[5] = Text("\n\nInteresting / potentially suspicious events:\n")
            /\ \A i \in 1..nI :
                    c[5 + i] = Text("- " \o Sentence(interesting[i]) \o "\n")
            /\ c[6 + nI] = Text("\nAll events (full log in sentences):\n")
            /\ \A i \in 1..nR :
                    c[6 + nI + i] = Text("- " \o Sentence(df.rows[i]) \o "\n")
            /\ Len(console) = 8 + shownR + shownI
            /\ console[3].rows = SubSeq(counts, 1, Shorter(Len(counts), 10))
            /\ \A i \in 1..shownR :
                    console[4 + i] = Text("- " \o Sentence(df.rows[i]))
            /\ Len(console[6 + shownR].rows) = shownI
            /\ \A i \in 1..shownI :
                    console[7 + shownR + i] =
                        Text("- " \o Sentence(interesting[i]))

C7_Witness ==
    /\ pc = "done"
    /\ Len(counts) > 10
    /\ Len(interesting) > 20
    /\ Len(parsed) > Len(interesting)

\* C8: the count of the aggregated table does not increase from an entry
\* to the next.
C8_CountsNonIncreasing ==
    pc = "counted" =>
        \A i \in 1..(Len(counts) - 1) : counts[i].count >= counts[i + 1].count

\* a table long enough for the introsort to partition it, in the order the
\* introsort leaves, which is not the order a stable sort leaves
C8_Witness ==
    /\ pc = "counted"
    /\ Len(counts) > 17
    /\ counts[1].count > counts[Len(counts)].count
    /\ LET grouped == GroupBySize(df.rows)
       IN  /\ counts = take(grouped, nargsort(Counts(grouped)))
           /\ counts # take(grouped, StableDescending(Counts(grouped)))

\* the value as the template shows it
Shown(v) == IF "none" \in DOMAIN v THEN "None" ELSE v.str

\* the sentence of the specification's template for a record
TemplateSentence(r) ==
    Join("", <<"At ", Shown(r.utc_time), ", on computer ", Shown(r.computer),
               ", ", Shown(r.description), ": ", Shown(r.image),
               " (process ID ", Shown(r.process_id), ").">>)

\* C9: to_sentence gives, for every record, the line
\* "At {utc_time}, on computer {computer}, {description}: {image}
\* (process ID {process_id})." with every present field as it is and every
\* absent field as the text "None".
C9_SentenceTemplate ==
    pc = "rendered" =>
        /\ Len(all_sentences) = Len(parsed)
        /\ \A i \in 1..Len(parsed) : all_sentences[i] = TemplateSentence(parsed[i])

\* C10: the report file is created or overwritten only once loading,
\* extraction, aggregation, filtering and the rendering of all sentences
\* are done; a failure ends the run, and leaves the report as it was.
C10_ReportOnlyAfterAllStages ==
    [][ /\ report_file' # report_file => (pc = "rendered" /\ pc' = "written")
        /\ pc = "failed" => (pc' = "failed" /\ report_file' = report_file) ]_vars

C10_Witness ==
    /\ pc = "failed"
    /\ error \in {"AttributeError", "KeyError"}
    /\ report_file = OldReport(TRUE)

=============================================================================
